---- MODULE Spec2Model ----
(***************************************************************************)
(* Model of the syntax-tree node classes of include/plorth/parser/ast.hpp: *)
(* the abstract class token and its six final shapes array, object, quote, *)
(* string, symbol and word.  Nodes live on a heap and are referred to by   *)
(* std::shared_ptr handles; the client program that builds the tree holds  *)
(* handle variables, an element vector, a property vector and a text.      *)
(***************************************************************************)
EXTENDS Naturals, Sequences, FiniteSets

(* ---------------------------------------------------------------- bounds *)

\* Most nodes ever allocated in one run of the full client.
MaxNodes == 2

\* Most nodes ever allocated in one run of the client that builds only
\* strings, arrays, objects and quotes.
MaxShared == 3

\* Longest element / property vector the client builds.
MaxLen == 2

(* ------------------------------------------------------ input domains *)

\* struct position values the client passes (source name, line, column).
Positions ==
  { [source |-> "test", line |-> 3, column |-> 5],
    [source |-> "test", line |-> 1, column |-> 1] }

\* std::u32string values the client passes as string value, symbol id or
\* object key; they differ in case only, so that a folding shows.
Texts == {"dup", "DUP"}

\* The client's handle variables (each a std::shared_ptr<token>).
Locals == {"x"}

\* The empty std::shared_ptr.
Null == 0

(* ------------------------------------------------------- enum class type *)

type_array == 91
type_object == 123
type_quote == 40
type_string == 34
type_symbol == 115
type_word == 58

(* ------------------------------------------------------------------ state *)

VARIABLES
  heap,       \* heap[n]: the node object with identity n (its members)
  use_count,  \* use_count[n]: owners counted by node n's control block
  built,      \* built[n]: the arguments node n's constructor was called with
  local,      \* the client's handle variables
  vec,        \* the client's std::vector<std::shared_ptr<token>>
  props,      \* the client's std::vector<std::pair<std::u32string, handle>>
  text        \* the client's std::u32string

vars == <<heap, use_count, built, local, vec, props, text>>

\* Storage of a node whose destructor has run.
Freed == [class |-> "freed"]

Nodes == 1..Len(heap)

Live == {n \in Nodes : heap[n].class # "freed"}

(* ----------------------------------------------------------- constructors *)

\* A token constructor that initialises the members in the wrong order.
token_swapped(position) ==
  [source |-> position.source, line |-> position.column,
   column |-> position.line]

\* token::token: the position is copied into the const member m_position.
token(position) == position

\* An array constructor that stores handles to copies of the children
\* (objects of their own, here the identities past the heap's bound).
array_of_copies(position, elements) ==
  [class |-> "array", m_position |-> token(position),
   m_elements |->
     [i \in 1..Len(elements) |->
        IF elements[i] = Null THEN Null ELSE elements[i] + MaxShared]]

\* An array constructor that also stores a handle to the array itself.
array_self(position, elements) ==
  [class |-> "array", m_position |-> token(position),
   m_elements |-> Append(elements, Len(heap) + 1)]

array(position, elements) ==
  [class |-> "array", m_position |-> token(position), m_elements |-> elements]

RECURSIVE unique_keys(_, _)
\* The properties with a key not in seen, the first of each key only.
unique_keys(properties, seen) ==
  IF properties = <<>> THEN <<>>
  ELSE IF Head(properties)[1] \in seen
    THEN unique_keys(Tail(properties), seen)
    ELSE <<Head(properties)>>
         \o unique_keys(Tail(properties), seen \cup {Head(properties)[1]})

\* An object constructor that keeps one property per key, as a map would.
object_unique_keys(position, properties) ==
  [class |-> "object", m_position |-> token(position),
   m_properties |-> unique_keys(properties, {})]

object(position, properties) ==
  [class |-> "object", m_position |-> token(position),
   m_properties |-> properties]

quote(position, children) ==
  [class |-> "quote", m_position |-> token(position), m_children |-> children]

string(position, value) ==
  [class |-> "string", m_position |-> token(position), m_value |-> value]

\* A symbol constructor that folds the identifier to lower case.
symbol_folded(position, id) ==
  [class |-> "symbol", m_position |-> token(position),
   m_id |-> IF id = "DUP" THEN "dup" ELSE id]

symbol(position, id) ==
  [class |-> "symbol", m_position |-> token(position), m_id |-> id]

\* A word constructor that leaves m_symbol empty.
word_unset(position, sym) ==
  [class |-> "word", m_position |-> token(position), m_symbol |-> Null]

word(position, sym) ==
  [class |-> "word", m_position |-> token(position), m_symbol |-> sym]

(* -------------------------------------------------------------- accessors *)

position(n) == heap[n].m_position

\* word::type() returning the symbol discriminant.
word_type_slip == type_symbol

array_type == type_array
object_type == type_object
quote_type == type_quote
string_type == type_string
symbol_type == type_symbol
word_type == type_word

\* The virtual call token::type(), dispatched on the node's dynamic class.
type(n) ==
  CASE heap[n].class = "array" -> array_type
    [] heap[n].class = "object" -> object_type
    [] heap[n].class = "quote" -> quote_type
    [] heap[n].class = "string" -> string_type
    [] heap[n].class = "symbol" -> symbol_type
    [] heap[n].class = "word" -> word_type

\* elements() of a node whose m_elements is a reference to the client's
\* vector instead of a copy of it.
elements_ref(n) == vec

elements(n) == heap[n].m_elements
properties(n) == heap[n].m_properties
children(n) == heap[n].m_children
value(n) == heap[n].m_value
id(n) == heap[n].m_id
word_symbol(n) == heap[n].m_symbol

(* -------------------------------------------------------- shared ownership *)

\* The handles a node object owns through its members.
members(node) ==
  CASE node.class = "array" -> node.m_elements
    [] node.class = "object" ->
         [i \in 1..Len(node.m_properties) |-> node.m_properties[i][2]]
    [] node.class = "quote" -> node.m_children
    [] node.class = "word" -> <<node.m_symbol>>
    [] OTHER -> <<>>

\* A handle stored without taking ownership, as a raw pointer would be.
shared_ptr_alias(cnt, h) == cnt

\* Copy construction of one std::shared_ptr: one more owner.
shared_ptr_copy(cnt, h) ==
  IF h = Null THEN cnt ELSE [cnt EXCEPT ![h] = @ + 1]

RECURSIVE copy_all(_, _)
\* Copy construction of a vector of handles, element by element.
copy_all(cnt, hs) ==
  IF hs = <<>> THEN cnt
  ELSE copy_all(shared_ptr_copy(cnt, Head(hs)), Tail(hs))

RECURSIVE release(_, _, _)
\* Destruction of the handles in work: each gives up one ownership, and the
\* last owner of a node runs the node's destructor, which destroys the
\* node's members (handles to its children) in turn.
release(cnt, hp, work) ==
  IF work = <<>> THEN [use_count |-> cnt, heap |-> hp]
  ELSE
    LET h == Head(work)
        rest == Tail(work)
    IN
      IF h = Null THEN release(cnt, hp, rest)
      ELSE IF cnt[h] > 1
        THEN release([cnt EXCEPT ![h] = @ - 1], hp, rest)
        ELSE release([cnt EXCEPT ![h] = 0], [hp EXCEPT ![h] = Freed],
                     members(hp[h]) \o rest)

\* The construction record keeps only nodes that still exist.
forget(b, hp) ==
  [n \in 1..Len(b) |-> IF hp[n].class = "freed" THEN Freed ELSE b[n]]

\* x = std::make_shared<T>(...): node is the object the constructor
\* built from args; the handle previously in x is released.  No more than
\* cap nodes are allocated in a run.
make_shared(cap, x, node, args) ==
  LET n == Len(heap) + 1
      cnt == copy_all(Append(use_count, 1), members(node))
      r == release(cnt, Append(heap, node), <<local[x]>>)
  IN
    /\ Len(heap) < cap
    /\ heap' = r.heap
    /\ use_count' = r.use_count
    /\ built' = forget(Append(built, args), r.heap)
    /\ local' = [local EXCEPT ![x] = n]
    /\ UNCHANGED <<vec, props, text>>

\* x = h, h a handle read from a live place: copy, then release the
\* handle previously in x.
assign(x, h) ==
  LET r == release(shared_ptr_copy(use_count, h), heap, <<local[x]>>)
  IN
    /\ heap' = r.heap
    /\ use_count' = r.use_count
    /\ built' = forget(built, r.heap)
    /\ local' = [local EXCEPT ![x] = h]
    /\ UNCHANGED <<vec, props, text>>

(* ------------------------------------------------------------------- Init *)

Init ==
  /\ heap = <<>>
  /\ use_count = <<>>
  /\ built = <<>>
  /\ local = [x \in Locals |-> Null]
  /\ vec = <<>>
  /\ props = <<>>
  /\ text \in Texts

(* ------------------------------------------------- actions: construction *)

NewString(cap, x, p) ==
  make_shared(cap, x, string(p, text),
              [ctor |-> "string", position |-> p, arg |-> text])

NewSymbol(cap, x, p) ==
  make_shared(cap, x, symbol(p, text),
              [ctor |-> "symbol", position |-> p, arg |-> text])

NewArray(cap, x, p) ==
  make_shared(cap, x, array(p, vec),
              [ctor |-> "array", position |-> p, arg |-> vec])

NewObject(cap, x, p) ==
  make_shared(cap, x, object(p, props),
              [ctor |-> "object", position |-> p, arg |-> props])

NewQuote(cap, x, p) ==
  make_shared(cap, x, quote(p, vec),
              [ctor |-> "quote", position |-> p, arg |-> vec])

\* The argument is a std::shared_ptr<symbol>: empty, or a symbol node.
NewWord(cap, x, p, y) ==
  /\ IF local[y] = Null THEN TRUE ELSE heap[local[y]].class = "symbol"
  /\ make_shared(cap, x, word(p, local[y]),
                 [ctor |-> "word", position |-> p, arg |-> local[y]])

(* ------------------------------------- actions: reading through accessors *)

\* x = elements()[i] of the array held in y.
GetElement(x, y, i) ==
  /\ local[y] # Null
  /\ heap[local[y]].class = "array"
  /\ i \in 1..Len(elements(local[y]))
  /\ assign(x, elements(local[y])[i])

\* x = properties()[i].second of the object held in y.
GetProperty(x, y, i) ==
  /\ local[y] # Null
  /\ heap[local[y]].class = "object"
  /\ i \in 1..Len(properties(local[y]))
  /\ assign(x, properties(local[y])[i][2])

\* x = children()[i] of the quote held in y.
GetChild(x, y, i) ==
  /\ local[y] # Null
  /\ heap[local[y]].class = "quote"
  /\ i \in 1..Len(children(local[y]))
  /\ assign(x, children(local[y])[i])

\* x = symbol() of the word held in y.
GetSymbol(x, y) ==
  /\ local[y] # Null
  /\ heap[local[y]].class = "word"
  /\ assign(x, word_symbol(local[y]))

\* x.reset(): the client drops a handle.
Reset(x) ==
  /\ local[x] # Null
  /\ assign(x, Null)

(* ------------------------------- actions: the client's own containers *)

\* The state after the client's containers changed to v and ps, having
\* copied the handles in gained and destroyed the handles in lost.
client(v, ps, gained, lost) ==
  LET r == release(copy_all(use_count, gained), heap, lost)
  IN
    /\ heap' = r.heap
    /\ use_count' = r.use_count
    /\ built' = forget(built, r.heap)
    /\ vec' = v
    /\ props' = ps
    /\ UNCHANGED <<local, text>>

\* The client fills one of its two containers at a time: it appends to the
\* vector while the property vector is empty, and the other way round.

Reverse(s) == [i \in 1..Len(s) |-> s[Len(s) + 1 - i]]

VecPushBack(x) ==
  /\ props = <<>>
  /\ Len(vec) < MaxLen
  /\ client(Append(vec, local[x]), props, <<local[x]>>, <<>>)

VecPopBack ==
  /\ vec # <<>>
  /\ client(SubSeq(vec, 1, Len(vec) - 1), props, <<>>, <<vec[Len(vec)]>>)

\* vec[i] = x
VecReplace(i, x) ==
  /\ i \in 1..Len(vec)
  /\ vec[i] # local[x]
  /\ client([vec EXCEPT ![i] = local[x]], props, <<local[x]>>, <<vec[i]>>)

\* std::reverse(vec.begin(), vec.end())
VecReverse ==
  /\ Reverse(vec) # vec
  /\ client(Reverse(vec), props, <<>>, <<>>)

PropsPushBack(k, x) ==
  /\ vec = <<>>
  /\ Len(props) < MaxLen
  /\ client(vec, Append(props, <<k, local[x]>>), <<local[x]>>, <<>>)

PropsPopBack ==
  /\ props # <<>>
  /\ client(vec, SubSeq(props, 1, Len(props) - 1), <<>>,
            <<props[Len(props)][2]>>)

\* props[i] = {k, x}
PropsReplace(i, k, x) ==
  /\ i \in 1..Len(props)
  /\ props[i] # <<k, local[x]>>
  /\ client(vec, [props EXCEPT ![i] = <<k, local[x]>>], <<local[x]>>,
            <<props[i][2]>>)

\* std::reverse(props.begin(), props.end())
PropsReverse ==
  /\ Reverse(props) # props
  /\ client(vec, Reverse(props), <<>>, <<>>)

\* text = t
SetText(t) ==
  /\ t # text
  /\ text' = t
  /\ UNCHANGED <<heap, use_count, built, local, vec, props>>

(* -------------------------------------------------------------------- Next *)

Next ==
  \/ \E x \in Locals, p \in Positions : NewString(MaxNodes, x, p)
  \/ \E x \in Locals, p \in Positions : NewSymbol(MaxNodes, x, p)
  \/ \E x \in Locals, p \in Positions : NewArray(MaxNodes, x, p)
  \/ \E x \in Locals, p \in Positions : NewObject(MaxNodes, x, p)
  \/ \E x \in Locals, p \in Positions : NewQuote(MaxNodes, x, p)
  \/ \E x \in Locals, p \in Positions, y \in Locals : NewWord(MaxNodes, x, p, y)
  \/ \E x \in Locals, y \in Locals, i \in 1..MaxLen : GetElement(x, y, i)
  \/ \E x \in Locals, y \in Locals, i \in 1..MaxLen : GetProperty(x, y, i)
  \/ \E x \in Locals, y \in Locals, i \in 1..MaxLen : GetChild(x, y, i)
  \/ \E x \in Locals, y \in Locals : GetSymbol(x, y)
  \/ \E x \in Locals : Reset(x)
  \/ \E x \in Locals : VecPushBack(x)
  \/ VecPopBack
  \/ \E i \in 1..MaxLen, x \in Locals : VecReplace(i, x)
  \/ VecReverse
  \/ \E k \in Texts, x \in Locals : PropsPushBack(k, x)
  \/ PropsPopBack
  \/ \E i \in 1..MaxLen, k \in Texts, x \in Locals : PropsReplace(i, k, x)
  \/ PropsReverse
  \/ \E t \in Texts : SetText(t)

Spec == Init /\ [][Next]_vars

\* The client that builds only strings, arrays, objects and quotes, nested
\* one level deeper, every property under the one key "dup".
NextShared ==
  \/ \E x \in Locals, p \in Positions : NewString(MaxShared, x, p)
  \/ \E x \in Locals, p \in Positions : NewArray(MaxShared, x, p)
  \/ \E x \in Locals, p \in Positions : NewObject(MaxShared, x, p)
  \/ \E x \in Locals, p \in Positions : NewQuote(MaxShared, x, p)
  \/ \E x \in Locals, y \in Locals, i \in 1..MaxLen : GetElement(x, y, i)
  \/ \E x \in Locals, y \in Locals, i \in 1..MaxLen : GetProperty(x, y, i)
  \/ \E x \in Locals, y \in Locals, i \in 1..MaxLen : GetChild(x, y, i)
  \/ \E x \in Locals : Reset(x)
  \/ \E x \in Locals : VecPushBack(x)
  \/ VecPopBack
  \/ \E x \in Locals : PropsPushBack("dup", x)
  \/ PropsPopBack

SpecShared == Init /\ [][NextShared]_vars

(* ----------------------------------------------------------------- claims *)

\* The discriminant of the variant whose constructor is named ctor.
Discriminant(ctor) ==
  CASE ctor = "array" -> type_array
    [] ctor = "object" -> type_object
    [] ctor = "quote" -> type_quote
    [] ctor = "string" -> type_string
    [] ctor = "symbol" -> type_symbol
    [] ctor = "word" -> type_word

\* Two sequences equal element by element.
SameSeq(a, b) ==
  /\ Len(a) = Len(b)
  /\ \A i \in 1..Len(a) : a[i] = b[i]

\* The non-null handles a node holds: its edges in the reference graph.
Children(n) ==
  {members(heap[n])[i] : i \in 1..Len(members(heap[n]))} \ {Null}

RECURSIVE ReachFrom(_, _)
\* The nodes reached from the set S in at most k further steps.
ReachFrom(S, k) ==
  IF k = 0 THEN S
  ELSE ReachFrom(S \cup UNION {Children(m) : m \in S \cap Live}, k - 1)

\* What a node's accessor returns besides type() and position().
payload(n) ==
  CASE heap[n].class = "array" -> elements(n)
    [] heap[n].class = "object" -> properties(n)
    [] heap[n].class = "quote" -> children(n)
    [] heap[n].class = "string" -> value(n)
    [] heap[n].class = "symbol" -> id(n)
    [] heap[n].class = "word" -> word_symbol(n)

\* How many times the handle h occurs in the sequence hs.
Occurrences(hs, h) == Cardinality({i \in 1..Len(hs) : hs[i] = h})

RECURSIVE Sum(_, _)
Sum(f, S) ==
  IF S = {} THEN 0
  ELSE LET e == CHOOSE e \in S : TRUE IN f[e] + Sum(f, S \ {e})

\* The handles to node n that exist: in the client's variables and
\* containers and in the members of the live nodes.
Holders(n) ==
  Cardinality({x \in Locals : local[x] = n})
  + Occurrences(vec, n)
  + Occurrences([i \in 1..Len(props) |-> props[i][2]], n)
  + Sum([m \in Live |-> Occurrences(members(heap[m]), n)], Live)

\* C1: type() of every node is the discriminant of the variant whose
\* constructor built it, in every state after its construction, and the six
\* discriminants are pairwise distinct.
C1_TypeIsVariantOfConstructor ==
  /\ Cardinality({type_array, type_object, type_quote, type_string,
                  type_symbol, type_word}) = 6
  /\ \A n \in Live : type(n) = Discriminant(built[n].ctor)

\* A word and the symbol it names are both live, after the word was built
\* and read: two variants, two discriminants.
C1_Witness ==
  \E w \in Live, s \in Live :
    /\ built[w].ctor = "word"
    /\ built[s].ctor = "symbol"
    /\ word_symbol(w) = s
    /\ type(w) = type_word
    /\ type(s) = type_symbol

\* C2: position() of every node is the position passed to its constructor,
\* in every state after its construction, also once the node is a child of
\* a parent built later.
C2_PositionIsConstructorArgument ==
  \A n \in Live : position(n) = built[n].position

\* A node is a child of a parent built later at another position.
C2_Witness ==
  \E n \in Live, m \in Live :
    /\ m \in Children(n)
    /\ built[m].position # built[n].position
    /\ position(m) = built[m].position

\* C3: elements(), properties() and children() equal the sequence passed
\* to the constructor element by element: same length, same order, same
\* handles, same keys, nothing deduplicated.
C3_SequencesPreserved ==
  \A n \in Live :
    /\ built[n].ctor = "array" => SameSeq(elements(n), built[n].arg)
    /\ built[n].ctor = "object" => SameSeq(properties(n), built[n].arg)
    /\ built[n].ctor = "quote" => SameSeq(children(n), built[n].arg)

\* An object built from the pairs [("dup", X), ("dup", Y)], X and Y two
\* nodes, yields these two properties in this order.
C3_Witness ==
  \E n \in Live, X \in Live, Y \in Live :
    /\ X # Y
    /\ built[n].ctor = "object"
    /\ built[n].arg = << <<"dup", X>>, <<"dup", Y>> >>
    /\ properties(n) = << <<"dup", X>>, <<"dup", Y>> >>

\* C4: a child handle c passed to an array is read back from it as the
\* same live node c, so a child passed to two arrays A and B is read back
\* from both as one instance; no copy of the child is made.
C4_SharedChildIsOneInstance ==
  \A A \in Live :
    built[A].ctor = "array" =>
      /\ \A i \in 1..Len(built[A].arg) :
           built[A].arg[i] # Null =>
             /\ i \in 1..Len(elements(A))
             /\ elements(A)[i] = built[A].arg[i]
             /\ elements(A)[i] \in Live
      /\ \A B \in Live \ {A} :
           built[B].ctor = "array" =>
             \A i \in 1..Len(built[A].arg), j \in 1..Len(built[B].arg) :
               (built[A].arg[i] # Null /\ built[A].arg[i] = built[B].arg[j])
                 => /\ i \in 1..Len(elements(A))
                    /\ j \in 1..Len(elements(B))
                    /\ elements(A)[i] = elements(B)[j]

\* Two live arrays were built with the same child, which neither the
\* client's variables nor its vector hold any more.
C4_Witness ==
  \E A \in Live, B \in Live, c \in Live :
    /\ A # B
    /\ built[A].ctor = "array"
    /\ built[B].ctor = "array"
    /\ c \in Children(A) \cap Children(B)
    /\ \A x \in Locals : local[x] # c
    /\ Occurrences(vec, c) = 0

\* Every child reference of a live node leads to a live node constructed
\* before it, and no node reaches itself.
Acyclic ==
  \A n \in Live :
    /\ \A c \in Children(n) : c \in Live /\ c < n
    /\ n \notin ReachFrom(Children(n), Len(heap))

\* No step adds, removes or replaces a child of a node that exists before
\* and after the step.
ChildrenFixed ==
  \A n \in Live \cap Live' : members(heap[n])' = members(heap[n])

\* C5: the reference graph is acyclic in every reachable state: every child
\* reference of a node leads to a node constructed strictly before it, no
\* node reaches itself, and no step changes the children of an existing
\* node.
C5_AcyclicAndFixed == []Acyclic /\ [][ChildrenFixed]_vars

\* A live parent holds a live child.
C5_Witness ==
  \E n \in Live : Children(n) # {}

\* C6: no live node holds a null child handle.
C6_NoNullChild ==
  \A n \in Live :
    \A i \in 1..Len(members(heap[n])) : members(heap[n])[i] # Null

\* Equality of two symbol nodes as the specification defines it: by id().
symbol_equals(a, b) == id(a) = id(b)

C8_WordSymbolIsArgument ==
  \A w \in Live :
    built[w].ctor = "word" =>
      /\ word_symbol(w) = built[w].arg
      /\ members(heap[w]) = <<built[w].arg>>
      /\ DOMAIN heap[w] = {"class", "m_position", "m_symbol"}
      /\ built[w].arg # Null =>
           /\ word_symbol(w) \in Live
           /\ built[word_symbol(w)].ctor = "symbol"
           /\ id(word_symbol(w)) = built[built[w].arg].arg
           /\ position(word_symbol(w)) = built[built[w].arg].position

\* A word wraps a symbol built at another position than the word.
C8_Witness ==
  \E w \in Live :
    /\ built[w].ctor = "word"
    /\ word_symbol(w) # Null
    /\ position(word_symbol(w)) # position(w)

\* C9: a node exists exactly as long as some handle to it exists, and its
\* control block counts exactly these handles.
C9_LiveIffHeld ==
  \A n \in Nodes :
    /\ n \in Live <=> Holders(n) > 0
    /\ use_count[n] = Holders(n)

\* A node is kept alive by its parent alone: the client holds no handle to
\* it any more.
C9_Witness ==
  \E n \in Live, m \in Live :
    /\ n \in Children(m)
    /\ \A x \in Locals : local[x] # n
    /\ Occurrences(vec, n) = 0
    /\ Occurrences([i \in 1..Len(props) |-> props[i][2]], n) = 0

\* A step that changes the client's vector, property vector or text changes
\* no accessor's result on a node that exists before and after the step.
ClientStep ==
  (vec' # vec \/ props' # props \/ text' # text) =>
    \A n \in Live \cap Live' : payload(n)' = payload(n)

\* C10: after construction, a change of the client's vector, property
\* vector or text (append, remove, reorder, replace, assign) leaves every
\* node's elements(), properties(), children(), value() and id() unchanged.
C10_Snapshot == [][ClientStep]_vars

\* An array and a string are live whose contents differ from the client's
\* vector and text: the client changed both after the constructions.
C10_Witness ==
  \E n \in Live, m \in Live :
    /\ built[n].ctor = "array"
    /\ elements(n) # vec
    /\ elements(n) # <<>>
    /\ built[m].ctor = "string"
    /\ value(m) # text

====
